---- MODULE Spec2Model ----
(***************************************************************************)
(* A model of the WODCraft toolchain of src/wodc_merged.py: the AST the    *)
(* transformer ToAST builds from the tokens of a program, the resolver     *)
(* _apply_catalog_and_resolve, lint, build_timeline with render_line and   *)
(* the pace estimate, and the text normalizer _normalize_wod_text.         *)
(*                                                                         *)
(* Representation.  A Python dict is a record (a function on its keys), a  *)
(* list is a sequence, None is the record None.  A Python str that the     *)
(* code matches against a regular expression (a token, a raw load, a text) *)
(* is a sequence of one-character strings; a str that the code only        *)
(* compares or prints (a movement, a kind, a path) is a TLA+ string.       *)
(* An int (reps, time, slot, duration) is an integer; a float (cal,        *)
(* distance, load values) is an integer number of tenths, so the tokens of *)
(* the model carry at most one fractional digit.  Estimated seconds are    *)
(* integers in thousandths of a second.                                    *)
(***************************************************************************)
EXTENDS Integers, Sequences, FiniteSets, TLC

VARIABLES
    ast0,      \* the AST as parse_wod_text returned it (never changed)
    ast,       \* the AST object that the stages share ({"meta", "program"})
    catalog,   \* --catalog: the path of the catalog file, "" when not given
    track,     \* --track
    gender,    \* --gender
    nres,      \* how many times _apply_catalog_and_resolve has run on ast
    issues,    \* what lint(ast) returned last
    linted,    \* whether lint has run
    ev,        \* what build_timeline(ast) returned last
    tl,        \* "none" | "returned" | "raised": the outcome of build_timeline
    text,      \* the raw text handed to _normalize_wod_text
    once,      \* _normalize_wod_text(text)
    twice,     \* _normalize_wod_text(once)
    fmtpc,     \* how many times the normalizer has run (0, 1, 2)
    source,    \* the segments of the program text, in the order ToAST met them
    cmd,       \* args.cmd, "" when the module is used without main()
    opts,      \* the options of the command itself (fmt: in_place, out)
    exit,      \* <<>> while main() runs, <<code>> once the process has exited
    output     \* what main() has printed or written: [to, data]

vars == <<ast0, ast, catalog, track, gender, nres, issues, linted,
          ev, tl, text, once, twice, fmtpc, source, cmd, opts, exit, output>>

\* what only main() and the transformer's bookkeeping touch
mainVars == <<cmd, opts, exit, output>>

(***************************************************************************)
(* Python values                                                           *)
(***************************************************************************)
None == [kind |-> "None"]

\* Python truthiness of a value that is None or a dict: `not x`.
Falsy(x) == x = None \/ DOMAIN x = {}

\* dict.get(k, default)
Get(d, k, default) == IF k \in DOMAIN d THEN d[k] ELSE default

\* d[k] = v
DictSet(d, k, v) == [x \in (DOMAIN d) \cup {k} |-> IF x = k THEN v ELSE d[x]]

Digits == {"0", "1", "2", "3", "4", "5", "6", "7", "8", "9"}

DigitVal(c) ==
    CASE c = "0" -> 0 [] c = "1" -> 1 [] c = "2" -> 2 [] c = "3" -> 3
      [] c = "4" -> 4 [] c = "5" -> 5 [] c = "6" -> 6 [] c = "7" -> 7
      [] c = "8" -> 8 [] c = "9" -> 9 [] OTHER -> 0

Sub(s, a, b) == SubSeq(s, a, b)

\* int("123")
RECURSIVE ParseInt(_)
ParseInt(s) ==
    IF s = <<>> THEN 0
    ELSE ParseInt(Sub(s, 1, Len(s) - 1)) * 10 + DigitVal(s[Len(s)])

DotPos(s) == IF \E p \in 1..Len(s) : s[p] = "."
             THEN CHOOSE p \in 1..Len(s) : s[p] = "." ELSE 0

\* float("12.5") in tenths: 125
ParseFloat(s) ==
    IF DotPos(s) = 0 THEN ParseInt(s) * 10
    ELSE ParseInt(Sub(s, 1, DotPos(s) - 1)) * 10
         + (IF DotPos(s) < Len(s) THEN DigitVal(s[DotPos(s) + 1]) ELSE 0)

(***************************************************************************)
(* Regular expressions of the source, each by what it matches              *)
(***************************************************************************)
\* \d+
IsDigits(s) == Len(s) >= 1 /\ \A i \in 1..Len(s) : s[i] \in Digits

\* \d+(?:\.\d+)?
IsNum(s) ==
    \/ IsDigits(s)
    \/ \E p \in 2..(Len(s) - 1) :
          s[p] = "." /\ IsDigits(Sub(s, 1, p - 1)) /\ IsDigits(Sub(s, p + 1, Len(s)))

\* \\d+ as the raw strings of ToAST spell it: a backslash and one or more "d"
IsBsD(s) == Len(s) >= 2 /\ s[1] = "\\" /\ \A i \in 2..Len(s) : s[i] = "d"

\* \\d+(?:\\.\\d+)? : a backslash and "d"s, then optionally a backslash, any
\* character, a backslash and "d"s
IsBsNum(s) ==
    \/ IsBsD(s)
    \/ \E p \in 3..(Len(s) - 3) :
          IsBsD(Sub(s, 1, p - 1)) /\ s[p] = "\\" /\ IsBsD(Sub(s, p + 2, Len(s)))

LoadUnits == {<<"k", "g">>, <<"l", "b">>, <<"c", "m">>, <<"i", "n">>,
              <<"m">>, <<"k", "m">>, <<"%">>}

UnitName(u) ==
    CASE u = <<"k", "g">> -> "kg" [] u = <<"l", "b">> -> "lb"
      [] u = <<"c", "m">> -> "cm" [] u = <<"i", "n">> -> "in"
      [] u = <<"m">> -> "m" [] u = <<"k", "m">> -> "km"
      [] u = <<"%">> -> "%" [] OTHER -> "?"

\* the number part of a pattern: "d" is \d+(?:\.\d+)?, "bsd" is its spelling
\* with doubled backslashes
MatchesNum(pat, s) == IF pat = "bsd" THEN IsBsNum(s) ELSE IsNum(s)

\* ^(num)(unit)$ : the groups <<val, unit>> of every way s matches
SingleGroups(s, pat, units) ==
    { <<Sub(s, 1, p), Sub(s, p + 1, Len(s))>> : p \in
        { q \in 1..(Len(s) - 1) : MatchesNum(pat, Sub(s, 1, q)) /\ Sub(s, q + 1, Len(s)) \in units } }

\* ^(num)/(num)(unit)$ : the groups <<a, b, unit>> of every way s matches
DualGroups(s, pat, units) ==
    { <<Sub(s, 1, pq[1] - 1), Sub(s, pq[1] + 1, pq[2]), Sub(s, pq[2] + 1, Len(s))>> : pq \in
        { x \in (2..Len(s)) \X (3..Len(s)) :
            /\ x[1] < x[2] /\ x[2] < Len(s)
            /\ s[x[1]] = "/"
            /\ MatchesNum(pat, Sub(s, 1, x[1] - 1))
            /\ MatchesNum(pat, Sub(s, x[1] + 1, x[2]))
            /\ Sub(s, x[2] + 1, Len(s)) \in units } }

Pick(S) == CHOOSE x \in S : TRUE

(***************************************************************************)
(* ToAST: from the tokens of the parse tree to the AST                     *)
(***************************************************************************)
\* A token is [type, value]; NoTok stands for an optional child that is absent.
NoTok == [type |-> "absent"]

Tok(ty, chars) == [type |-> ty, value |-> chars]

SlashPos(s) == CHOOSE p \in 1..Len(s) : s[p] = "/"

ColonPos(s) == CHOOSE p \in 1..Len(s) : s[p] = ":"

\* time_from_tree: the seconds of a time subtree mmss | only_m | only_s
time_from_tree(t) ==
    CASE t.data = "mmss"   -> t.children[1] * 60 + t.children[2]
      [] t.data = "only_m" -> t.children[1] * 60
      [] t.data = "only_s" -> t.children[1]

\* ToAST.dual_reps: raw.split('/') and int() of both parts
dual_reps(raw) ==
    [kind |-> "dual_reps",
     a |-> ParseInt(Sub(raw, 1, SlashPos(raw) - 1)),
     b |-> ParseInt(Sub(raw, SlashPos(raw) + 1, Len(raw)))]

\* raw.replace('cal','').strip() of a CALDUAL token (digits, '/', digits,
\* optional blanks, "cal"): what is left is the text before the blanks
RECURSIVE StripCal(_)
StripCal(s) ==
    IF s = <<>> THEN s
    ELSE IF s[Len(s)] \in {" ", "c", "a", "l"} THEN StripCal(Sub(s, 1, Len(s) - 1))
    ELSE s

\* ToAST.dual_cal
dual_cal(raw) ==
    LET r == StripCal(raw) IN
    [kind |-> "dual_cal",
     a |-> ParseFloat(Sub(r, 1, SlashPos(r) - 1)),
     b |-> ParseFloat(Sub(r, SlashPos(r) + 1, Len(r)))]

\* float(x) * (1000 if unit == 'km' else 1), in tenths
ToMeters(val, unit) == ParseFloat(val) * (IF unit = <<"k", "m">> THEN 1000 ELSE 1)

DistUnits == {<<"m">>, <<"k", "m">>}

\* ToAST.dual_distance: re.match(r'^(\\d+(?:\\.\\d+)?)/(\\d+(?:\\.\\d+)?)(m|km)$', raw)
dual_distance(raw) ==
    LET m == DualGroups(raw, "bsd", DistUnits) IN
    IF m # {}
    THEN [kind |-> "dual_distance", a |-> ToMeters(Pick(m)[1], Pick(m)[3]),
          b |-> ToMeters(Pick(m)[2], Pick(m)[3]), unit |-> "m"]
    ELSE [kind |-> "dual_distance", a |-> 0, b |-> 0, unit |-> "m"]

\* ToAST.reps
reps(raw) == [kind |-> "reps", value |-> ParseInt(raw)]

\* ToAST.cal_qty
cal_qty(raw) == [kind |-> "cal", value |-> ParseFloat(raw)]

\* re.match(r'^(\\d+(?:\\.\\d+)?)(m|km)\\b', raw): the groups <<val, unit>>; the
\* pattern ends in a backslash and a "b" and is not anchored at the end
DistQtyGroups(raw) ==
    { <<Sub(raw, 1, pq[1]), Sub(raw, pq[1] + 1, pq[2])>> : pq \in
        { x \in (1..Len(raw)) \X (1..Len(raw)) :
            /\ x[1] < x[2] /\ x[2] + 2 <= Len(raw)
            /\ IsBsNum(Sub(raw, 1, x[1]))
            /\ Sub(raw, x[1] + 1, x[2]) \in DistUnits
            /\ raw[x[2] + 1] = "\\" /\ raw[x[2] + 2] = "b" } }

\* ToAST.distance_qty
distance_qty(raw) ==
    LET m == DistQtyGroups(raw) IN
    IF m = {} THEN [kind |-> "distance", value |-> 0, unit |-> "m"]
    ELSE [kind |-> "distance", value |-> ToMeters(Pick(m)[1], Pick(m)[2]), unit |-> "m"]

\* ToAST.hold_time: mm:ss, or re.match(r'^(\\d+)s$', raw)
hold_time(raw) ==
    IF \E p \in 1..Len(raw) : raw[p] = ":"
    THEN [kind |-> "time",
          value |-> ParseInt(Sub(raw, 1, ColonPos(raw) - 1)) * 60
                    + ParseInt(Sub(raw, ColonPos(raw) + 1, Len(raw)))]
    ELSE [kind |-> "time",
          value |-> IF Len(raw) >= 3 /\ IsBsD(Sub(raw, 1, Len(raw) - 1)) /\ raw[Len(raw)] = "s"
                    THEN ParseInt(Sub(raw, 1, Len(raw) - 1)) ELSE 0]

\* the rule `quantity` of GRAMMAR: the callback each token alternative names
quantity(tok) ==
    CASE tok.type = "REPDUAL"  -> dual_reps(tok.value)
      [] tok.type = "CALDUAL"  -> dual_cal(tok.value)
      [] tok.type = "DISTDUAL" -> dual_distance(tok.value)
      [] tok.type = "INT"      -> reps(tok.value)
      [] tok.type = "NUMBER"   -> cal_qty(tok.value)
      [] tok.type = "DIST"     -> distance_qty(tok.value)
      [] tok.type = "TIMEQ"    -> hold_time(tok.value)

\* mk(val, unit) of ToAST.load, and the four branches of its single form
mk(val, unit) ==
    CASE unit \in {<<"k", "g">>, <<"l", "b">>} ->
            [kind |-> "weight", value |-> ParseFloat(val), unit |-> UnitName(unit)]
      [] unit \in {<<"c", "m">>, <<"i", "n">>} ->
            [kind |-> "height", value |-> ParseFloat(val), unit |-> UnitName(unit)]
      [] unit \in {<<"m">>, <<"k", "m">>} ->
            [kind |-> "distance", value |-> ToMeters(val, unit), unit |-> "m"]
      [] unit = <<"%">> ->
            [kind |-> "percent_raw", value |-> ParseFloat(val)]

\* ToAST.load: both patterns are spelt with doubled backslashes
load(raw) ==
    LET m  == DualGroups(raw, "bsd", LoadUnits)
        m2 == SingleGroups(raw, "bsd", LoadUnits) IN
    IF m # {} THEN [kind |-> "dual", a |-> mk(Pick(m)[1], Pick(m)[3]),
                    b |-> mk(Pick(m)[2], Pick(m)[3])]
    ELSE IF m2 # {} THEN mk(Pick(m2)[1], Pick(m2)[2])
    ELSE [kind |-> "raw", value |-> raw]

\* ToAST.line: the children are an optional quantity, the movement, an optional
\* load and the suffixes
line(src) ==
    [type |-> "LINE",
     qty |-> IF src.q = NoTok THEN None ELSE quantity(src.q),
     movement |-> src.mv,
     load |-> IF src.l = NoTok THEN None ELSE load(src.l.value),
     flags |-> src.flags]

\* ToAST.emom_stmt
emom_stmt(slot, src) == [type |-> "EMOM_LINE", slot |-> slot, line |-> line(src)]

\* ?stmt: emom_stmt | line   (slot 0 stands for a plain line)
stmt(src) == IF src.slot = 0 THEN line(src) ELSE emom_stmt(src.slot, src)

\* the block heads: amrap_head .. interval_head
block_head(h) ==
    CASE h.mode \in {"AMRAP", "EMOM"} -> [mode |-> h.mode, duration |-> time_from_tree(h.time)]
      [] h.mode \in {"FT", "CHIPPER"} -> [mode |-> h.mode]
      [] h.mode = "RFT" -> [mode |-> "RFT", rounds |-> h.rounds]
      [] h.mode \in {"TABATA", "INTERVAL"} ->
            [mode |-> h.mode, work |-> time_from_tree(h.work),
             rest |-> time_from_tree(h.rest), sets |-> h.sets]

\* ToAST.buyin, cashout, rest, block, track_block (the options WORK, PARTITION,
\* CAP and TIEBREAK of a block add keys that no stage modelled here reads)
segment(s) ==
    CASE s.type \in {"BUYIN", "CASHOUT"} ->
            [type |-> s.type, stmts |-> [i \in 1..Len(s.stmts) |-> stmt(s.stmts[i])]]
      [] s.type = "REST" -> [type |-> "REST", duration |-> time_from_tree(s.time)]
      [] s.type = "BLOCK" ->
            [type |-> "BLOCK", head |-> block_head(s.head),
             stmts |-> [i \in 1..Len(s.stmts) |-> stmt(s.stmts[i])]]
      [] s.type = "TRACK" -> [type |-> "TRACK_BLOCK", ignored |-> TRUE]

\* ToAST.start, for a program without meta lines
start(segs) ==
    [meta |-> [title |-> None, team |-> None, cap |-> None],
     program |-> [i \in 1..Len(segs) |-> segment(segs[i])]]

(***************************************************************************)
(* Movement aliases and the known list                                     *)
(***************************************************************************)
KNOWN_MOVEMENTS ==
    {"wall_balls", "box_jumps", "run", "thrusters", "pullups", "ring_rows", "bike",
     "burpees", "sandbag_carry", "hollow_hold", "toes_to_bar", "row", "double_unders",
     "clean", "rope_climbs", "burpee_box_jump_over", "power_clean", "assault_bike"}

MOVEMENT_ALIASES ==
    [wb |-> "wall_balls", wallball |-> "wall_balls",
     bj |-> "box_jumps", box_jump |-> "box_jumps",
     pu |-> "pullups", pull_up |-> "pullups",
     rr |-> "ring_rows", ring_row |-> "ring_rows",
     t2b |-> "toes_to_bar", ttb |-> "toes_to_bar",
     du |-> "double_unders", dus |-> "double_unders", double_under |-> "double_unders",
     row |-> "row", run |-> "run", bike |-> "bike", echo_bike |-> "bike",
     assault_bike |-> "assault_bike",
     bbjo |-> "burpee_box_jump_over", bjo |-> "burpee_box_jump_over",
     burpee_box_jumps |-> "burpee_box_jump_over",
     rc |-> "rope_climbs", rope_climb |-> "rope_climbs",
     pc |-> "power_clean", power_clean |-> "power_clean", clean |-> "clean",
     cleans |-> "clean",
     sb_carry |-> "sandbag_carry", sandbag_carry |-> "sandbag_carry",
     burpee |-> "burpees", burpees |-> "burpees", hollow_hold |-> "hollow_hold"]

\* str.lower() on the identifiers the model uses (all but these are lower case)
Lower(name) ==
    CASE name = "Row" -> "row" [] name = "WB" -> "wb" [] name = "RX" -> "rx"
      [] name = "INTERMEDIATE" -> "intermediate" [] name = "SCALED" -> "scaled"
      [] OTHER -> name

_normalize_mv(name) == Get(MOVEMENT_ALIASES, Lower(name), name)

(***************************************************************************)
(* _apply_catalog_and_resolve                                              *)
(***************************************************************************)
EmptyDict == <<>>

\* a JSON value of the catalog's load table: a string or an object
JStr(chars) == [json |-> "str", v |-> chars]
JObj(obj) == [json |-> "obj", v |-> obj]

resolve_qty(q, g) ==
    IF Falsy(q) THEN q
    ELSE CASE q.kind = "dual_reps" ->
                [kind |-> "reps", value |-> IF g = "male" THEN q.a ELSE q.b]
           [] q.kind = "dual_cal" ->
                [kind |-> "cal", value |-> IF g = "male" THEN q.a ELSE q.b]
           [] q.kind = "dual_distance" ->
                [kind |-> "distance", value |-> IF g = "male" THEN q.a ELSE q.b,
                 unit |-> "m"]
           [] OTHER -> q

resolve_load(ld, g) ==
    IF Falsy(ld) THEN ld
    ELSE IF Get(ld, "kind", "") = "dual" THEN (IF g = "male" THEN ld.a ELSE ld.b)
    ELSE IF Get(ld, "kind", "") = "raw"
         THEN LET m == DualGroups(Get(ld, "value", <<>>), "d", LoadUnits) IN
              IF m # {}
              THEN mk(IF g = "male" THEN Pick(m)[1] ELSE Pick(m)[2], Pick(m)[3])
              ELSE ld
    ELSE ld

\* (move.get(field) or {}).get(tkey, {}).get(gender): <<v>>, or <<>> for None
CatGet(move, field, tkey, g) ==
    LET byTrack  == Get(move, field, EmptyDict)
        byGender == Get(byTrack, tkey, EmptyDict) IN
    IF g \in DOMAIN byGender THEN <<byGender[g]>> ELSE <<>>

CatalogLoadUnits == {<<"k", "g">>, <<"l", "b">>, <<"c", "m">>, <<"i", "n">>, <<"m">>}

\* the qty half of apply_catalog_line
CatalogQty(ln, move, tkey, g) ==
    LET q  == Get(ln, "qty", None)
        vr == CatGet(move, "reps", tkey, g)
        vd == CatGet(move, "distance", tkey, g)
        vc == CatGet(move, "cal", tkey, g) IN
    IF Falsy(q) \/ (Get(q, "kind", "") = "distance" /\ q.value = 0)
    THEN IF vr # <<>> THEN DictSet(ln, "qty", [kind |-> "reps", value |-> vr[1]])
         ELSE IF vd # <<>>
              THEN DictSet(ln, "qty", [kind |-> "distance", value |-> vd[1], unit |-> "m"])
         ELSE IF vc # <<>> THEN DictSet(ln, "qty", [kind |-> "cal", value |-> vc[1]])
         ELSE ln
    ELSE ln

\* the load half of apply_catalog_line; the pattern of the string form is
\* r'^(\\d+(?:\\.\\d+)?)(kg|lb|cm|in|m)$'
CatalogLoad(ln, move, tkey, g) ==
    LET v == CatGet(move, "load", tkey, g) IN
    IF Falsy(Get(ln, "load", None)) /\ v # <<>>
    THEN IF v[1].json = "str"
         THEN LET m == SingleGroups(v[1].v, "bsd", CatalogLoadUnits) IN
              IF m # {} THEN DictSet(ln, "load", mk(Pick(m)[1], Pick(m)[2])) ELSE ln
         ELSE DictSet(ln, "load", v[1].v)
    ELSE ln

apply_catalog_line(ln, cat, trk, g) ==
    IF Falsy(cat) THEN ln
    ELSE LET movements == Get(cat, "movements", EmptyDict)
             move == IF "movement" \in DOMAIN ln
                     THEN Get(movements, ln.movement, EmptyDict) ELSE EmptyDict
         IN CatalogLoad(CatalogQty(ln, move, Lower(trk), g), move, Lower(trk), g)

\* the body of `for ln in it`: the dict as the loop leaves it, and the notes
\* it appended
ResolveLn(ln, cat, trk, g) ==
    LET hasMv == "movement" \in DOMAIN ln
        norm  == IF hasMv THEN _normalize_mv(ln.movement) ELSE ""
        l1 == IF hasMv /\ norm # ln.movement THEN DictSet(ln, "movement", norm) ELSE ln
        l2 == DictSet(l1, "qty", resolve_qty(Get(l1, "qty", None), g))
        l3 == DictSet(l2, "load", resolve_load(Get(l2, "load", None), g))
    IN [ln |-> apply_catalog_line(l3, cat, trk, g),
        notes |-> IF hasMv /\ norm # ln.movement
                  THEN <<[code |-> "W050", from |-> ln.movement, to |-> norm]>>
                  ELSE <<>>]

\* one statement of a segment: in BUYIN and CASHOUT the loop variable is the
\* statement itself, in a BLOCK it is the line, or the inner line of a slot-line
ResolveStmt(segType, st, cat, trk, g) ==
    IF segType \in {"BUYIN", "CASHOUT"}
    THEN [st |-> ResolveLn(st, cat, trk, g).ln, notes |-> ResolveLn(st, cat, trk, g).notes]
    ELSE IF st.type = "LINE"
    THEN [st |-> ResolveLn(st, cat, trk, g).ln, notes |-> ResolveLn(st, cat, trk, g).notes]
    ELSE [st |-> [st EXCEPT !.line = ResolveLn(st.line, cat, trk, g).ln],
          notes |-> ResolveLn(st.line, cat, trk, g).notes]

RECURSIVE ConcatNotes(_, _)
ConcatNotes(rs, n) == IF n = 0 THEN <<>> ELSE ConcatNotes(rs, n - 1) \o rs[n].notes

\* one segment of `for seg in ast.get('program', [])`
ResolveSeg(seg, cat, trk, g) ==
    IF seg.type \in {"BUYIN", "CASHOUT", "BLOCK"}
    THEN LET rs == [i \in 1..Len(seg.stmts) |->
                        ResolveStmt(seg.type, seg.stmts[i], cat, trk, g)]
         IN [seg |-> [seg EXCEPT !.stmts = [i \in 1..Len(seg.stmts) |-> rs[i].st]],
             notes |-> ConcatNotes(rs, Len(seg.stmts))]
    ELSE [seg |-> seg, notes |-> <<>>]

\* ast.setdefault('meta', {}).setdefault('normalized', notes)
SetDefaultNormalized(meta, notes) ==
    IF "normalized" \in DOMAIN meta THEN meta ELSE DictSet(meta, "normalized", notes)

\* the AST after _apply_catalog_and_resolve(a, cat, trk, g, issues_out)
ResolvedAst(a, cat, trk, g) ==
    LET rs == [i \in 1..Len(a.program) |-> ResolveSeg(a.program[i], cat, trk, g)]
    IN [meta |-> SetDefaultNormalized(a.meta, ConcatNotes(rs, Len(a.program))),
        program |-> [i \in 1..Len(a.program) |-> rs[i].seg]]

(***************************************************************************)
(* lint                                                                    *)
(***************************************************************************)
\* the str of a sequence of characters
RECURSIVE StrOf(_)
StrOf(chars) == IF chars = <<>> THEN "" ELSE chars[1] \o StrOf(Tail(chars))

\* re.match(r'^\d+(?:\.\d+)?(kg|lb|cm|in|m|km|%.*)?$', raw)
LoadPatternOk(raw) ==
    \/ IsNum(raw)
    \/ \E p \in 1..(Len(raw) - 1) :
          /\ IsNum(Sub(raw, 1, p))
          /\ \/ Sub(raw, p + 1, Len(raw)) \in (LoadUnits \ {<<"%">>})
             \/ raw[p + 1] = "%"

Issue(level, code, path, msg) == [level |-> level, code |-> code, path |-> path, msg |-> msg]

\* the W050 issues lifted from meta.normalized
AliasIssues(a) ==
    LET notes == Get(a.meta, "normalized", <<>>) IN
    [n \in 1..Len(notes) |->
        Issue("warning", "W050", "META",
              "Alias '" \o notes[n].from \o "' -> '" \o notes[n].to \o "'")]

\* check_line(ln, path): the issues it appends
check_line(ln, path) ==
    LET mvIssue ==
            IF "movement" \in DOMAIN ln /\ ln.movement \notin KNOWN_MOVEMENTS
            THEN <<Issue("warning", "W001", path,
                         "Unknown movement '" \o ln.movement \o "'")>>
            ELSE <<>>
        ld == Get(ln, "load", None)
        ldIssue ==
            IF ~Falsy(ld) /\ Get(ld, "kind", "") = "raw" /\ ~LoadPatternOk(Get(ld, "value", <<>>))
            THEN <<Issue("warning", "W002", path,
                         "Suspicious load '" \o StrOf(ld.value) \o "'")>>
            ELSE <<>>
    IN mvIssue \o ldIssue

\* the issues of statements j..Len(stmts) of segment i (both counted from 0 in
\* the paths, as enumerate does)
RECURSIVE LintStmts(_, _, _, _)
LintStmts(t, i, stmts, j) ==
    IF j > Len(stmts) THEN <<>>
    ELSE (IF t = "BLOCK"
          THEN check_line(Get(stmts[j], "line", stmts[j]),
                          "BLOCK[" \o ToString(i - 1) \o "].LINE[" \o ToString(j - 1) \o "]")
          ELSE IF stmts[j].type = "LINE"
               THEN check_line(stmts[j], t \o "[" \o ToString(j - 1) \o "]")
               ELSE <<>>)
         \o LintStmts(t, i, stmts, j + 1)

\* LintSeg with the REST test `< 0` in place of `<= 0`
LintSegStrictRest(seg, i) ==
    CASE seg.type \in {"BUYIN", "CASHOUT"} -> LintStmts(seg.type, i, seg.stmts, 1)
      [] seg.type = "REST" ->
            IF seg.duration < 0
            THEN <<Issue("error", "E010", "REST[" \o ToString(i - 1) \o "]", "REST must be > 0")>>
            ELSE <<>>
      [] seg.type = "BLOCK" ->
            (IF seg.head.mode = "EMOM"
                /\ ~\E j \in 1..Len(seg.stmts) : seg.stmts[j].type = "EMOM_LINE"
             THEN <<Issue("error", "E020", "BLOCK[" \o ToString(i - 1) \o "]", "EMOM has no slots")>>
             ELSE <<>>)
            \o LintStmts("BLOCK", i, seg.stmts, 1)
      [] OTHER -> <<>>

\* the body of `for i, seg in enumerate(ast.get("program", []))`
LintSeg(seg, i) ==
    CASE seg.type \in {"BUYIN", "CASHOUT"} -> LintStmts(seg.type, i, seg.stmts, 1)
      [] seg.type = "REST" ->
            IF seg.duration <= 0
            THEN <<Issue("error", "E010", "REST[" \o ToString(i - 1) \o "]", "REST must be > 0")>>
            ELSE <<>>
      [] seg.type = "BLOCK" ->
            (IF seg.head.mode = "EMOM"
                /\ ~\E j \in 1..Len(seg.stmts) : seg.stmts[j].type = "EMOM_LINE"
             THEN <<Issue("error", "E020", "BLOCK[" \o ToString(i - 1) \o "]", "EMOM has no slots")>>
             ELSE <<>>)
            \o LintStmts("BLOCK", i, seg.stmts, 1)
      [] OTHER -> <<>>

RECURSIVE LintSegs(_, _)
LintSegs(program, i) ==
    IF i > Len(program) THEN <<>> ELSE LintSeg(program[i], i) \o LintSegs(program, i + 1)

lint(a) == AliasIssues(a) \o LintSegs(a.program, 1)

(***************************************************************************)
(* render_line, the pace estimate and build_timeline                       *)
(***************************************************************************)
\* f"{n:02d}"
Pad2(n) == IF n < 10 THEN "0" \o ToString(n) ELSE ToString(n)

hhmmss(sec) ==
    LET m0 == sec \div 60
        h  == m0 \div 60 IN
    IF h # 0 THEN Pad2(h) \o ":" \o Pad2(m0 % 60) \o ":" \o Pad2(sec % 60)
    ELSE Pad2(m0 % 60) \o ":" \o Pad2(sec % 60)

\* str(x) of a float kept in tenths
FloatStr(v) == ToString(v \div 10) \o "." \o ToString(v % 10)

RECURSIVE JoinFlags(_)
JoinFlags(fs) ==
    IF fs = <<>> THEN ""
    ELSE IF Len(fs) = 1 THEN fs[1] ELSE fs[1] \o " " \o JoinFlags(Tail(fs))

\* render_line; the final strip() removes nothing, a line's movement being a
\* non-empty identifier
render_line(ln) ==
    LET qty  == Get(ln, "qty", None)
        qtxt == IF Falsy(qty) THEN ""
                ELSE CASE qty.kind = "reps" -> ToString(qty.value) \o " "
                       [] qty.kind = "cal" -> FloatStr(qty.value) \o " cal "
                       [] qty.kind = "distance" -> ToString(qty.value \div 10) \o "m "
                       [] qty.kind = "time" -> hhmmss(qty.value) \o " "
                       [] OTHER -> ""
        ld   == Get(ln, "load", None)
        kind == IF Falsy(ld) THEN "" ELSE Get(ld, "kind", "")
        ltxt == CASE kind \in {"weight", "height"} ->
                        " @" \o ToString(ld.value \div 10) \o ld.unit
                  [] kind = "distance" -> " @" \o ToString(ld.value \div 10) \o "m"
                  [] kind = "percent_raw" -> " @" \o ToString(ld.value \div 10) \o "%"
                  [] OTHER -> ""
        flags == JoinFlags(Get(ln, "flags", <<>>))
    IN qtxt \o Get(ln, "movement", "") \o ltxt \o (IF flags # "" THEN " " \o flags ELSE "")

\* est_line_seconds, in thousandths of a second
est_line_seconds(ln) ==
    LET q  == Get(ln, "qty", None)
        mv == Get(ln, "movement", "") IN
    IF Falsy(q) THEN 2000
    ELSE CASE q.kind = "reps" ->
                (CASE mv = "thrusters" -> 3000 [] mv = "pullups" -> 2000
                   [] mv = "ring_rows" -> 1800 [] mv = "burpees" -> 3500
                   [] mv = "wall_balls" -> 2500 [] mv = "box_jumps" -> 2800
                   [] mv = "toes_to_bar" -> 2500 [] OTHER -> 3000) * q.value
           [] q.kind = "cal" -> (IF mv = "row" THEN 300 ELSE 350) * q.value
           [] q.kind = "distance" ->
                (CASE mv = "row" -> 35 [] mv = "run" -> 60
                   [] mv = "sandbag_carry" -> 90 [] OTHER -> 90) * q.value
           [] q.kind = "time" -> 1000 * q.value
           [] OTHER -> 5000

\* st if st.get("type") == "LINE" else st.get("line", {})
LineOf(st) == IF st.type = "LINE" THEN st ELSE Get(st, "line", EmptyDict)

RECURSIVE SumLines(_, _)
SumLines(stmts, n) ==
    IF n = 0 THEN 0 ELSE SumLines(stmts, n - 1) + est_line_seconds(LineOf(stmts[n]))

\* est_block_seconds, in thousandths of a second
est_block_seconds(block) ==
    LET head == block.head
        mode == head.mode IN
    CASE mode \in {"AMRAP", "EMOM"} -> 1000 * Get(head, "duration", 0)
      [] mode \in {"FT", "CHIPPER"} -> SumLines(block.stmts, Len(block.stmts))
      [] mode = "RFT" -> Get(head, "rounds", 1) * SumLines(block.stmts, Len(block.stmts))
      [] mode \in {"TABATA", "INTERVAL"} ->
            Get(head, "sets", 0) * (1000 * Get(head, "work", 0) + 1000 * Get(head, "rest", 0))
      [] OTHER -> 0

\* int(x) of a non-negative float kept in thousandths
IntOf(x) == x \div 1000

\* emit(typ, **kw) at clock t: the event appended
Emit(t, typ, kw) == [x \in {"t", "type"} \cup DOMAIN kw |->
                        IF x = "t" THEN t ELSE IF x = "type" THEN typ ELSE kw[x]]

\* one PROMPT per statement of type LINE, all at clock t
RECURSIVE Prompts(_, _)
Prompts(stmts, t) ==
    IF stmts = <<>> THEN <<>>
    ELSE (IF stmts[1].type = "LINE"
          THEN <<Emit(t, "PROMPT", [text |-> render_line(stmts[1])])>> ELSE <<>>)
         \o Prompts(Tail(stmts), t)

\* the dict `slots` of the EMOM branch: slot number -> line, the last
\* slot-line of a number winning
SlotsDict(stmts) ==
    LET idx == {j \in 1..Len(stmts) : stmts[j].type = "EMOM_LINE"} IN
    [k \in {stmts[j].slot : j \in idx} |->
        stmts[CHOOSE j \in idx : stmts[j].slot = k
                                 /\ \A j2 \in idx : stmts[j2].slot = k => j2 <= j].line]

\* the clock, the events and whether an exception is propagating
TState(t, events, raised) == [t |-> t, ev |-> events, raised |-> raised]

\* EmomLoop with the clock left where it was after each NEXT_SLOT
RECURSIVE EmomLoopFrozenClock(_, _, _, _)
EmomLoopFrozenClock(slots, i, minutes, st) ==
    IF i >= minutes \/ DOMAIN slots = {} THEN st
    ELSE LET idx == (i % Cardinality(DOMAIN slots)) + 1 IN
         IF idx \notin DOMAIN slots THEN TState(st.t, st.ev, TRUE)
         ELSE EmomLoopFrozenClock(slots, i + 1, minutes,
                TState(st.t,
                       Append(st.ev, Emit(st.t, "NEXT_SLOT",
                                          [slot |-> idx, text |-> render_line(slots[idx])])),
                       FALSE))

\* `for i in range(minutes)` of the EMOM branch from iteration i on;
\* slots[idx] raises KeyError when idx is no key of slots
RECURSIVE EmomLoop(_, _, _, _)
EmomLoop(slots, i, minutes, st) ==
    IF i >= minutes \/ DOMAIN slots = {} THEN st
    ELSE LET idx == (i % Cardinality(DOMAIN slots)) + 1 IN
         IF idx \notin DOMAIN slots THEN TState(st.t, st.ev, TRUE)
         ELSE EmomLoop(slots, i + 1, minutes,
                TState(st.t + 60,
                       Append(st.ev, Emit(st.t, "NEXT_SLOT",
                                          [slot |-> idx, text |-> render_line(slots[idx])])),
                       FALSE))

\* TimelineBlock with the END_BLOCK of an AMRAP emitted before the clock moves
TimelineBlockEarlyEnd(seg, st) ==
    LET mode == seg.head.mode
        s1 == TState(st.t, Append(st.ev, Emit(st.t, "START_BLOCK", [mode |-> mode])), FALSE)
    IN CASE mode = "AMRAP" ->
              LET t2 == s1.t + Get(seg.head, "duration", 0) IN
              TState(t2, (s1.ev \o Prompts(seg.stmts, s1.t)) \o <<Emit(s1.t, "END_BLOCK", <<>>)>>, FALSE)
         [] mode = "EMOM" ->
              LET s2 == EmomLoop(SlotsDict(seg.stmts), 0, Get(seg.head, "duration", 0) \div 60, s1)
              IN IF s2.raised THEN s2
                 ELSE TState(s2.t, Append(s2.ev, Emit(s2.t, "END_BLOCK", <<>>)), FALSE)
         [] OTHER ->
              LET t2 == s1.t + IntOf(est_block_seconds(seg)) IN
              TState(t2, (s1.ev \o Prompts(seg.stmts, s1.t)) \o <<Emit(t2, "END_BLOCK", <<>>)>>, FALSE)

\* the BLOCK branch of build_timeline
TimelineBlock(seg, st) ==
    LET mode == seg.head.mode
        s1 == TState(st.t, Append(st.ev, Emit(st.t, "START_BLOCK", [mode |-> mode])), FALSE)
    IN CASE mode = "AMRAP" ->
              LET t2 == s1.t + Get(seg.head, "duration", 0) IN
              TState(t2, (s1.ev \o Prompts(seg.stmts, s1.t)) \o <<Emit(t2, "END_BLOCK", <<>>)>>, FALSE)
         [] mode = "EMOM" ->
              LET s2 == EmomLoop(SlotsDict(seg.stmts), 0, Get(seg.head, "duration", 0) \div 60, s1)
              IN IF s2.raised THEN s2
                 ELSE TState(s2.t, Append(s2.ev, Emit(s2.t, "END_BLOCK", <<>>)), FALSE)
         [] OTHER ->
              LET t2 == s1.t + IntOf(est_block_seconds(seg)) IN
              TState(t2, (s1.ev \o Prompts(seg.stmts, s1.t)) \o <<Emit(t2, "END_BLOCK", <<>>)>>, FALSE)

\* TimelineRest with the times of REST_START and REST_END exchanged
TimelineRestSwapped(seg, st) ==
    LET dur == Get(seg, "duration", 0) IN
    TState(st.t + dur,
           st.ev \o <<Emit(st.t + dur, "REST_START", [duration |-> dur]),
                      Emit(st.t, "REST_END", <<>>)>>,
           FALSE)

\* the REST branch
TimelineRest(seg, st) ==
    LET dur == Get(seg, "duration", 0) IN
    TState(st.t + dur,
           st.ev \o <<Emit(st.t, "REST_START", [duration |-> dur]),
                      Emit(st.t + dur, "REST_END", <<>>)>>,
           FALSE)

\* TimelineIntro with the PROMPT events emitted after END_*
TimelineIntroLatePrompts(seg, st) ==
    TState(st.t,
           (st.ev \o <<Emit(st.t, "START_" \o seg.type, <<>>),
                       Emit(st.t, "END_" \o seg.type, <<>>)>>) \o Prompts(seg.stmts, st.t),
           FALSE)

\* the BUYIN and CASHOUT branches
TimelineIntro(seg, st) ==
    TState(st.t,
           (Append(st.ev, Emit(st.t, "START_" \o seg.type, <<>>)) \o Prompts(seg.stmts, st.t))
               \o <<Emit(st.t, "END_" \o seg.type, <<>>)>>,
           FALSE)

\* the body of `for seg in ast.get("program", [])`
TimelineSeg(seg, st) ==
    CASE seg.type \in {"BUYIN", "CASHOUT"} -> TimelineIntro(seg, st)
      [] seg.type = "REST" -> TimelineRest(seg, st)
      [] seg.type = "BLOCK" -> TimelineBlock(seg, st)
      [] OTHER -> st

RECURSIVE TimelineFrom(_, _, _)
TimelineFrom(program, i, st) ==
    IF i > Len(program) \/ st.raised THEN st
    ELSE TimelineFrom(program, i + 1, TimelineSeg(program[i], st))

\* build_timeline(a): its events and clock, or raised = TRUE when it ends in
\* an exception
build_timeline(a) == TimelineFrom(a.program, 1, TState(0, <<>>, FALSE))

(***************************************************************************)
(* _normalize_wod_text                                                     *)
(***************************************************************************)
\* the line boundaries of str.splitlines() among the characters of the model
LineBreaks == {"\n", "\r"}

\* the characters str.rstrip() removes among the characters of the model
Whitespace == {" ", "\t", "\n", "\r"}

\* text.splitlines(): "\r\n" is one boundary, and a final boundary opens no
\* further line.  cur is the line being read.
RECURSIVE SplitFrom(_, _, _)
SplitFrom(s, i, cur) ==
    IF i > Len(s) THEN (IF cur = <<>> THEN <<>> ELSE <<cur>>)
    ELSE IF s[i] \in LineBreaks
         THEN LET j == IF s[i] = "\r" /\ i < Len(s) /\ s[i + 1] = "\n" THEN i + 2 ELSE i + 1
              IN <<cur>> \o SplitFrom(s, j, <<>>)
         ELSE SplitFrom(s, i + 1, Append(cur, s[i]))

splitlines(s) == SplitFrom(s, 1, <<>>)

\* ln.rstrip()
RECURSIVE rstrip(_)
rstrip(s) ==
    IF s # <<>> /\ s[Len(s)] \in Whitespace THEN rstrip(Sub(s, 1, Len(s) - 1)) ELSE s

\* s.rstrip("\n")
RECURSIVE rstripNL(_)
rstripNL(s) ==
    IF s # <<>> /\ s[Len(s)] = "\n" THEN rstripNL(Sub(s, 1, Len(s) - 1)) ELSE s

\* Collapse with is_blank tested on the line before it is stripped
RECURSIVE CollapseUnstripped(_, _, _)
CollapseUnstripped(lines, i, prev_blank) ==
    IF i > Len(lines) THEN <<>>
    ELSE LET s0 == rstrip(lines[i])
             is_blank == (lines[i] = <<>>) IN
         IF is_blank /\ prev_blank THEN CollapseUnstripped(lines, i + 1, prev_blank)
         ELSE <<s0>> \o CollapseUnstripped(lines, i + 1, is_blank)

\* the loop `for ln in lines`: the list out
RECURSIVE Collapse(_, _, _)
Collapse(lines, i, prev_blank) ==
    IF i > Len(lines) THEN <<>>
    ELSE LET s0 == rstrip(lines[i])
             is_blank == (s0 = <<>>) IN
         IF is_blank /\ prev_blank THEN Collapse(lines, i + 1, prev_blank)
         ELSE <<s0>> \o Collapse(lines, i + 1, is_blank)

\* "\n".join(out)
RECURSIVE JoinNL(_)
JoinNL(out) ==
    IF out = <<>> THEN <<>>
    ELSE IF Len(out) = 1 THEN out[1] ELSE (out[1] \o <<"\n">>) \o JoinNL(Tail(out))

\* _normalize_wod_text without the .rstrip("\n") of the joined text
NormalizeNoRstrip(s) ==
    Append(JoinNL(Collapse(splitlines(s), 1, FALSE)), "\n")

\* "\n".join(out).rstrip("\n") + "\n"
_normalize_wod_text(s) ==
    Append(rstripNL(JoinNL(Collapse(splitlines(s), 1, FALSE))), "\n")

(***************************************************************************)
(* Programs: the parse trees the states start from                         *)
(***************************************************************************)
\* the largest program of the model: a REST or TRACK segment counts 1, a
\* BUYIN, CASHOUT or BLOCK counts 1 and 1 more for each of its statements
MaxSize == 4

\* how many times the resolver may be called on one AST
MaxResolve == 2

\* the longest text handed to the normalizer
MaxLen == 5

Src(q, mv, l, flags) == [slot |-> 0, q |-> q, mv |-> mv, l |-> l, flags |-> flags]

\* the statements `line` (slot 0) and `INT ":" line` over a set of lines
StmtsOver(lines, slots) == {[ln EXCEPT !.slot = k] : ln \in lines, k \in slots}

\* the segments of one type (and head) with n statements out of stmts
Buyins(ty, stmts, n) == {[type |-> ty, stmts |-> b] : b \in [1..n -> stmts]}

Blocks(heads, stmts, n) ==
    {[type |-> "BLOCK", head |-> h, stmts |-> b] : h \in heads, b \in [1..n -> stmts]}

\* the size of a program of the AST
RECURSIVE SizeOf(_)
SizeOf(program) ==
    IF program = <<>> THEN 0
    ELSE (IF program[1].type \in {"REST", "TRACK_BLOCK"} THEN 1
          ELSE 1 + Len(program[1].stmts))
         + SizeOf(Tail(program))

Time(data, children) == [data |-> data, children |-> children]

TrackSeg == [type |-> "TRACK"]

\* --- the programs of the resolver's specification
ResolveLines ==
    { Src(Tok("REPDUAL", <<"1", "5", "/", "1", "2">>), "wb",
          Tok("LOADDUAL", <<"2", "0", "/", "1", "5", "k", "g">>), <<>>),
      Src(Tok("CALDUAL", <<"1", "5", "/", "1", "2", ".", "5", " ", "c", "a", "l">>), "Row",
          NoTok, <<>>),
      Src(Tok("DISTDUAL", <<"4", "0", "0", "/", "3", "0", "0", "m">>), "run",
          Tok("LOADDUAL", <<"1", ".", "5", "/", "1", "k", "m">>), <<"SYNC">>),
      Src(NoTok, "thrusters", NoTok, <<>>) }

DualWb == Src(Tok("REPDUAL", <<"1", "5", "/", "1", "2">>), "wb",
              Tok("LOADDUAL", <<"2", "0", "/", "1", "5", "k", "g">>), <<>>)

ResolveSegs ==
    [c \in 1..MaxSize |->
        IF c = 1 THEN {TrackSeg}
        ELSE Buyins("BUYIN", StmtsOver({DualWb}, {0, 1})
                             \cup StmtsOver({Src(NoTok, "thrusters", NoTok, <<>>)}, {0, 1}),
                    c - 1)
             \cup Buyins("CASHOUT", StmtsOver({Src(NoTok, "WB", NoTok, <<>>)}, {0, 1}), c - 1)
             \cup Blocks({[mode |-> "FT"]}, StmtsOver(ResolveLines, {0, 1}), c - 1)]

\* --- the catalog of the model: reps, a distance and loads for three movements
Catalog1 ==
    [movements |->
        [thrusters |-> [reps |-> [rx |-> [male |-> 21, female |-> 15]],
                        load |-> [rx |-> [male |-> JStr(<<"4", "3", "k", "g">>),
                                          female |-> JObj([kind |-> "weight", value |-> 300,
                                                           unit |-> "kg"])]]],
         run |-> [distance |-> [rx |-> [male |-> 4000, female |-> 3000]]],
         row |-> [load |-> [rx |-> [male |-> JObj([kind |-> "dual",
                                       a |-> [kind |-> "height", value |-> 600, unit |-> "cm"],
                                       b |-> [kind |-> "height", value |-> 500, unit |-> "cm"]]),
                                    female |-> JObj([kind |-> "height", value |-> 500,
                                                     unit |-> "cm"])]]]]]

\* json.loads(Path(args.catalog).read_text()) if args.catalog else None
LoadCatalog(path) == IF path = "" THEN None ELSE Catalog1

\* the command lines: --catalog, --track, --gender
Args(cat, trk, g) == [catalog |-> cat, track |-> trk, gender |-> g]

NoCatalogArgs == {Args("", "RX", g) : g \in {"male", "female"}}

CatalogArgs ==
    {Args("catalog.json", "RX", g) : g \in {"male", "female"}}
    \cup {Args("catalog.json", "SCALED", "male")}

\* args.cmd and the options of the command itself; "" is the module imported
\* and called without main()
Cmd(c, o) == [cmd |-> c, opts |-> o]

NoOpts == <<>>

\* nothing printed or written yet
NoOutput == [to |-> "", data |-> <<>>]

(***************************************************************************)
(* The stages as actions                                                   *)
(***************************************************************************)
\* the transformer has an empty program in hand, and no stage has run
InitWith(args, texts, cmds) ==
    /\ ast0 = start(<<>>)
    /\ ast = ast0
    /\ \E a \in args : catalog = a.catalog /\ track = a.track /\ gender = a.gender
    /\ nres = 0
    /\ issues = <<>>
    /\ linted = FALSE
    /\ ev = <<>>
    /\ tl = "none"
    /\ text \in texts
    /\ once = <<>>
    /\ twice = <<>>
    /\ fmtpc = 0
    /\ source = <<>>
    /\ \E c \in cmds : cmd = c.cmd /\ opts = c.opts
    /\ exit = <<>>
    /\ output = NoOutput

\* ToAST.start: `program.append(it)` for one more segment of the source, out
\* of segs[c] for a size c that keeps the program within MaxSize
ParseSegment(segs) ==
    /\ nres = 0 /\ ~linted /\ tl = "none"
    /\ \E c \in 1..(MaxSize - SizeOf(ast.program)) : \E sg \in segs[c] :
          /\ ast' = [ast EXCEPT !.program = Append(@, segment(sg))]
          /\ source' = Append(source, sg)
    /\ ast0' = ast'
    /\ UNCHANGED <<catalog, track, gender, nres, issues, linted, ev, tl, text, once, twice,
                   fmtpc, mainVars>>

\* the call _apply_catalog_and_resolve(ast, catalog, track, gender, issues_out)
ResolveCall ==
    /\ ast' = ResolvedAst(ast, LoadCatalog(catalog), track, gender)
    /\ nres' = nres + 1
    /\ UNCHANGED <<ast0, catalog, track, gender, issues, linted, ev, tl, text, once,
                   twice, fmtpc, source, mainVars>>

\* a caller of the module running the resolver, again on its own output too
Resolve == nres < MaxResolve /\ ResolveCall

\* main(): the resolver runs once, before the command
MainResolve == nres = 0 /\ ~linted /\ tl = "none" /\ ResolveCall

\* lint keeping what it found in ast.meta
LintKeepingIssues ==
    /\ issues' = lint(ast)
    /\ linted' = TRUE
    /\ ast' = [ast EXCEPT !.meta = DictSet(@, "issues", lint(ast))]
    /\ UNCHANGED <<ast0, catalog, track, gender, nres, ev, tl, text, once, twice,
                   fmtpc, source, mainVars>>

\* issues = lint(ast)
Lint ==
    /\ issues' = lint(ast)
    /\ linted' = TRUE
    /\ UNCHANGED <<ast0, ast, catalog, track, gender, nres, ev, tl, text, once, twice,
                   fmtpc, source, mainVars>>

\* i['level'].upper()
Upper(level) ==
    CASE level = "error" -> "ERROR" [] level = "warning" -> "WARNING" [] OTHER -> level

\* f"{i['level'].upper()} {i['code']} {i['path']}: {i['msg']}"
PrintedIssue(i) == Upper(i.level) \o " " \o i.code \o " " \o i.path \o ": " \o i.msg

\* LintExit leaving with code 1 as soon as there is any issue
LintExitOnAnyIssue ==
    /\ cmd = "lint" /\ nres = 1 /\ linted /\ exit = <<>>
    /\ output' = [to |-> "stdout", data |-> [k \in 1..Len(issues) |-> PrintedIssue(issues[k])]]
    /\ exit' = IF issues # <<>> THEN <<1>> ELSE <<0>>
    /\ UNCHANGED <<ast0, ast, catalog, track, gender, nres, issues, linted, ev, tl, text,
                   once, twice, fmtpc, source, cmd, opts>>

\* main(), command lint, after issues = lint(ast) + issues_buf (the resolver
\* appends nothing to issues_buf): one line per issue, then sys.exit
LintExit ==
    /\ cmd = "lint" /\ nres = 1 /\ linted /\ exit = <<>>
    /\ output' = [to |-> "stdout", data |-> [k \in 1..Len(issues) |-> PrintedIssue(issues[k])]]
    /\ exit' = IF \E k \in 1..Len(issues) : issues[k].level = "error" THEN <<1>> ELSE <<0>>
    /\ UNCHANGED <<ast0, ast, catalog, track, gender, nres, issues, linted, ev, tl, text,
                   once, twice, fmtpc, source, cmd, opts>>

\* the call build_timeline(ast)
BuildTimelineCall ==
    /\ LET r == build_timeline(ast) IN
         /\ tl' = IF r.raised THEN "raised" ELSE "returned"
         /\ ev' = IF r.raised THEN <<>> ELSE r.ev
    /\ UNCHANGED <<ast0, ast, catalog, track, gender, nres, issues, linted, text, once,
                   twice, fmtpc, source, mainVars>>

\* main(): tl = build_timeline(ast), once
BuildTimeline == tl = "none" /\ BuildTimelineCall

\* once = _normalize_wod_text(raw)
FmtOnce ==
    /\ fmtpc = 0
    /\ once' = _normalize_wod_text(text)
    /\ fmtpc' = 1
    /\ UNCHANGED <<ast0, ast, catalog, track, gender, nres, issues, linted, ev, tl, text,
                   twice, source, mainVars>>

\* twice = _normalize_wod_text(once)
FmtTwice ==
    /\ fmtpc = 1
    /\ twice' = _normalize_wod_text(once)
    /\ fmtpc' = 2
    /\ UNCHANGED <<ast0, ast, catalog, track, gender, nres, issues, linted, ev, tl, text,
                   once, source, mainVars>>

\* --- the resolver on the resolver's programs, called up to MaxResolve times
InitResolve == InitWith(NoCatalogArgs \cup CatalogArgs, {<<>>}, {Cmd("", NoOpts)})

ParseResolve == ParseSegment(ResolveSegs)

NextResolve == ParseResolve \/ Resolve

SpecResolve == InitResolve /\ [][NextResolve]_vars

\* --- the programs of the timeline's specification
Burpees10 == Src(Tok("INT", <<"1", "0">>), "burpees", NoTok, <<>>)

RingRows7 == Src(Tok("INT", <<"7">>), "ring_rows", Tok("LOADVAL", <<"2", "0", "k", "g">>),
                 <<"SYNC">>)

CalRow == Src(Tok("CALDUAL", <<"1", "5", "/", "1", "2", ".", "5", " ", "c", "a", "l">>), "row",
              NoTok, <<>>)

EmomHeads == {[mode |-> "EMOM", time |-> Time("mmss", <<3, 10>>)]}

OtherHeads ==
    { [mode |-> "AMRAP", time |-> Time("only_m", <<1>>)],
      [mode |-> "FT"],
      [mode |-> "RFT", rounds |-> 3],
      [mode |-> "CHIPPER"],
      [mode |-> "TABATA", work |-> Time("only_s", <<20>>), rest |-> Time("only_s", <<10>>),
       sets |-> 8],
      [mode |-> "INTERVAL", sets |-> 3, work |-> Time("mmss", <<1, 0>>),
       rest |-> Time("only_s", <<30>>)] }

Rests(times) == {[type |-> "REST", time |-> t] : t \in times}

TimelineSegs ==
    [c \in 1..MaxSize |->
        IF c = 1
        THEN Rests({Time("only_s", <<30>>), Time("mmss", <<1, 30>>)}) \cup {TrackSeg}
        ELSE Buyins("BUYIN", {Burpees10, CalRow, [RingRows7 EXCEPT !.slot = 1]}, c - 1)
             \cup Buyins("CASHOUT", {Burpees10, CalRow, [RingRows7 EXCEPT !.slot = 1]}, c - 1)
             \cup Blocks(EmomHeads, StmtsOver({Burpees10, RingRows7}, {0, 1, 2}), c - 1)
             \cup Blocks(OtherHeads, {Burpees10, RingRows7, CalRow,
                                      [Burpees10 EXCEPT !.slot = 1]}, c - 1)]

\* --- main() for the command run: the resolver, then build_timeline; a caller
\* of the module may also build the timeline of the AST as parsed
InitTimeline == InitWith(NoCatalogArgs, {<<>>}, {Cmd("run", NoOpts)})

ParseTimeline == ParseSegment(TimelineSegs)

NextTimeline == ParseTimeline \/ MainResolve \/ BuildTimeline

SpecTimeline == InitTimeline /\ [][NextTimeline]_vars

\* --- the programs of lint's specification
Wb10 == Src(Tok("INT", <<"1", "0">>), "wb", NoTok, <<>>)

Foobar10 == Src(Tok("INT", <<"1", "0">>), "foobar", NoTok, <<>>)

Run20kg == Src(NoTok, "run", Tok("LOADVAL", <<"2", "0", "k", "g">>), <<>>)

Swing2416 == Src(NoTok, "kb_swing", Tok("LOADDUAL", <<"2", "4", "/", "1", "6", "k", "g">>), <<>>)

LintSegsIn ==
    [c \in 1..MaxSize |->
        IF c = 1
        THEN Rests({Time("only_s", <<0>>), Time("only_s", <<30>>)}) \cup {TrackSeg}
        ELSE Buyins("BUYIN", StmtsOver({Wb10, Foobar10}, {0, 1}), c - 1)
             \cup Buyins("CASHOUT", {Foobar10, [Wb10 EXCEPT !.slot = 1], Swing2416}, c - 1)
             \cup Blocks({[mode |-> "EMOM", time |-> Time("only_m", <<2>>)]},
                         StmtsOver({Wb10, Foobar10}, {0, 1}), c - 1)
             \cup Blocks({[mode |-> "FT"]},
                         {Wb10, Foobar10, Run20kg, [Foobar10 EXCEPT !.slot = 1], Swing2416},
                         c - 1)]

\* --- main() for the command lint: the resolver, then lint; a caller of the
\* module may also lint the AST as parsed
InitLint == InitWith({Args("", "RX", "male")}, {<<>>}, {Cmd("lint", NoOpts)})

ParseLint == ParseSegment(LintSegsIn)

NextLint == ParseLint \/ MainResolve \/ Lint \/ LintExit

SpecLint == InitLint /\ [][NextLint]_vars

\* --- the normalizer, applied once and then to its own output
Chars == {"a", " ", "\n", "\r"}

Texts == UNION {[1..n -> Chars] : n \in 0..MaxLen}

InitFmt == InitWith({Args("", "RX", "male")}, Texts, {Cmd("", NoOpts)})

NextFmt == FmtOnce \/ FmtTwice

SpecFmt == InitFmt /\ [][NextFmt]_vars

(***************************************************************************)
(* Properties of the resolver                                              *)
(***************************************************************************)
\* the positions <<i, j>> of the statements of the BUYIN, CASHOUT and BLOCK
\* segments of an AST
StmtPositions(a) ==
    {<<i, j>> \in (1..Len(a.program)) \X (1..MaxSize) :
        /\ a.program[i].type \in {"BUYIN", "CASHOUT", "BLOCK"}
        /\ j <= Len(a.program[i].stmts)}

\* the line at a position: the statement when it is a plain line, the inner
\* line of a slot-line otherwise
LineAt(a, pos) ==
    LET st == a.program[pos[1]].stmts[pos[2]] IN
    IF st.type = "LINE" THEN st ELSE st.line

DualQtyKinds == {"dual_reps", "dual_cal", "dual_distance"}

\* C1: after the resolver has run, no line of the program (plain or inner line
\* of a slot-line, in BUYIN, CASHOUT and every BLOCK, catalog loads included)
\* has a qty of kind dual_reps, dual_cal or dual_distance or a load of kind
\* dual.
C1_NoDualAfterResolve ==
    nres >= 1 =>
        \A pos \in StmtPositions(ast) :
            /\ LineAt(ast, pos).qty.kind \notin DualQtyKinds
            /\ LineAt(ast, pos).load.kind # "dual"

\* C2: the resolver is idempotent: a run on its own output, with the same
\* catalog, track and gender, leaves the whole AST unchanged.
C2_ResolveIdempotent ==
    [][(nres >= 1 /\ nres' = nres + 1) => ast' = ast]_vars

\* the non-dual equivalent of a dual qty for a gender: branch a for male,
\* branch b otherwise, a distance in m
ChosenQty(q, g) ==
    LET v == IF g = "male" THEN q.a ELSE q.b IN
    CASE q.kind = "dual_reps" -> [kind |-> "reps", value |-> v]
      [] q.kind = "dual_cal" -> [kind |-> "cal", value |-> v]
      [] q.kind = "dual_distance" -> [kind |-> "distance", value |-> v, unit |-> "m"]

\* C7: for every line whose qty or load is of a dual kind, the resolver
\* replaces it by branch a when gender is male and by branch b otherwise, the
\* result being the non-dual equivalent with the value and unit of the chosen
\* branch (stated for runs without a catalog, where nothing else sets qty or
\* load).
C7_DualSelection ==
    (nres = 1 /\ catalog = "") =>
        \A pos \in StmtPositions(ast0) :
            LET l0 == LineAt(ast0, pos)
                l1 == LineAt(ast, pos) IN
            /\ l0.qty.kind \in DualQtyKinds => l1.qty = ChosenQty(l0.qty, gender)
            /\ l0.load.kind = "dual" =>
                   l1.load = (IF gender = "male" THEN l0.load.a ELSE l0.load.b)

(***************************************************************************)
(* Properties of build_timeline                                            *)
(***************************************************************************)
\* the k-th smallest number of a finite set of numbers
Nth(S, k) == CHOOSE x \in S : Cardinality({y \in S : y < x}) = k - 1

\* the indices of the BLOCK segments of an AST, and of the START_BLOCK events
\* of an event list
BlockSegs(a) == {i \in 1..Len(a.program) : a.program[i].type = "BLOCK"}

StartEvents(events) == {k \in 1..Len(events) : events[k].type = "START_BLOCK"}

\* the n-th BLOCK segment of the AST the timeline was built from
NthBlock(n) == ast.program[Nth(BlockSegs(ast), n)]

\* C3: in the event list build_timeline returns, the t values are
\* non-decreasing in emission order and the first event has t = 0.
C3_TimelineMonotone ==
    tl = "returned" =>
        /\ \A k \in 1..(Len(ev) - 1) : ev[k].t <= ev[k + 1].t
        /\ ev # <<>> => ev[1].t = 0

\* a returned timeline of several events whose clock has advanced twice
C3_Witness ==
    /\ tl = "returned"
    /\ Len(ev) >= 4
    /\ Cardinality({k \in 1..(Len(ev) - 1) : ev[k].t < ev[k + 1].t}) >= 2

\* C4: for an EMOM block of duration D with N >= 1 slot-lines and
\* M = floor(D/60), build_timeline emits exactly M NEXT_SLOT events for the
\* block, the i-th (from 0) carrying slot (i mod N) + 1 and the rendered text
\* of a line of that slot, at time t_start + 60*i.
C4_EmomRotation ==
    tl # "none" =>
        \A n \in 1..Cardinality(BlockSegs(ast)) :
            LET seg == NthBlock(n)
                slotLines == {j \in 1..Len(seg.stmts) : seg.stmts[j].type = "EMOM_LINE"}
                N == Cardinality(slotLines)
                M == seg.head.duration \div 60
            IN (seg.head.mode = "EMOM" /\ N >= 1) =>
                 /\ tl = "returned"
                 /\ Cardinality(StartEvents(ev)) = Cardinality(BlockSegs(ast))
                 /\ LET s == Nth(StartEvents(ev), n) IN
                    /\ s + M + 1 <= Len(ev)
                    /\ ev[s + M + 1].type = "END_BLOCK"
                    /\ \A i \in 0..(M - 1) :
                          LET e == ev[s + 1 + i] IN
                          /\ e.type = "NEXT_SLOT"
                          /\ e.slot = (i % N) + 1
                          /\ e.t = ev[s].t + 60 * i
                          /\ \E j \in slotLines :
                                /\ seg.stmts[j].slot = e.slot
                                /\ e.text = render_line(seg.stmts[j].line)

\* C5: for every AMRAP block, wherever it sits in the program, the END_BLOCK
\* event that closes it has t equal to the t of its START_BLOCK event plus the
\* block's duration, and its PROMPT events, one per plain line, all sit at the
\* START_BLOCK time.
C5_AmrapEnd ==
    tl = "returned" =>
        /\ Cardinality(StartEvents(ev)) = Cardinality(BlockSegs(ast))
        /\ \A n \in 1..Cardinality(BlockSegs(ast)) :
              LET seg == NthBlock(n)
                  s == Nth(StartEvents(ev), n)
                  np == Cardinality({j \in 1..Len(seg.stmts) : seg.stmts[j].type = "LINE"})
              IN seg.head.mode = "AMRAP" =>
                   /\ ev[s].mode = "AMRAP"
                   /\ s + np + 1 <= Len(ev)
                   /\ \A k \in (s + 1)..(s + np) :
                          ev[k].type = "PROMPT" /\ ev[k].t = ev[s].t
                   /\ ev[s + np + 1].type = "END_BLOCK"
                   /\ ev[s + np + 1].t = ev[s].t + seg.head.duration

\* an AMRAP block that starts after the clock has advanced, with a PROMPT
C5_Witness ==
    /\ tl = "returned"
    /\ \E n \in 1..Cardinality(BlockSegs(ast)) :
          /\ NthBlock(n).head.mode = "AMRAP"
          /\ ev[Nth(StartEvents(ev), n)].t > 0
          /\ ev[Nth(StartEvents(ev), n) + 1].type = "PROMPT"

(***************************************************************************)
(* Properties of lint                                                      *)
(***************************************************************************)
\* C6: for every line (in BUYIN, CASHOUT or a BLOCK, inner lines of
\* slot-lines included) whose movement the alias table maps to a different
\* identifier, after the resolver the line's movement is the mapped identifier
\* and meta.normalized holds the note {code: W050, from, to}; lint then
\* returns one W050 warning per note and no W001 for a movement whose
\* post-alias identifier is a known movement.
C6_AliasCanonical ==
    nres = 1 =>
        LET notes == Get(ast.meta, "normalized", <<>>) IN
        /\ \A pos \in StmtPositions(ast0) :
              LET mv == LineAt(ast0, pos).movement IN
              _normalize_mv(mv) # mv =>
                  /\ LineAt(ast, pos).movement = _normalize_mv(mv)
                  /\ \E k \in 1..Len(notes) :
                        notes[k] = [code |-> "W050", from |-> mv, to |-> _normalize_mv(mv)]
        /\ linted =>
              /\ Cardinality({k \in 1..Len(issues) :
                                 issues[k].code = "W050" /\ issues[k].level = "warning"})
                    = Len(notes)
              /\ \A pos \in StmtPositions(ast0) :
                    LET mv == LineAt(ast0, pos).movement IN
                    _normalize_mv(mv) \in KNOWN_MOVEMENTS =>
                        \A k \in 1..Len(issues) :
                            issues[k].code = "W001" =>
                                /\ issues[k].msg # "Unknown movement '" \o mv \o "'"
                                /\ issues[k].msg # "Unknown movement '" \o _normalize_mv(mv) \o "'"

\* the segments lint must report as errors: a REST of duration <= 0, an EMOM
\* block without a slot-line
BadRest(seg) == seg.type = "REST" /\ seg.duration <= 0

EmomNoSlot(seg) ==
    /\ seg.type = "BLOCK"
    /\ seg.head.mode = "EMOM"
    /\ \A j \in 1..Len(seg.stmts) : seg.stmts[j].type # "EMOM_LINE"

\* the set of the indices k of the error-level issues with a code and a path
ErrorsAt(code, path) ==
    {k \in 1..Len(issues) :
        issues[k].level = "error" /\ issues[k].code = code /\ issues[k].path = path}

\* C10: the error-level diagnostics lint returns are exactly one E010 (path
\* REST[i]) for each REST segment of duration <= 0 and one E020 (path
\* BLOCK[i]) for each EMOM block without a slot-line, i being the index of the
\* segment in the program from 0; no other segment produces an error.
C10_LintErrors ==
    linted =>
        /\ \A i \in 1..Len(ast.program) :
              /\ Cardinality(ErrorsAt("E010", "REST[" \o ToString(i - 1) \o "]"))
                    = IF BadRest(ast.program[i]) THEN 1 ELSE 0
              /\ Cardinality(ErrorsAt("E020", "BLOCK[" \o ToString(i - 1) \o "]"))
                    = IF EmomNoSlot(ast.program[i]) THEN 1 ELSE 0
        /\ Cardinality({k \in 1..Len(issues) : issues[k].level = "error"})
              = Cardinality({i \in 1..Len(ast.program) :
                                BadRest(ast.program[i]) \/ EmomNoSlot(ast.program[i])})

\* lint has reported a REST of 0 seconds and an EMOM without slots, next to
\* segments it reports no error for
C10_Witness ==
    /\ linted
    /\ \E i, j \in 1..Len(ast.program) :
          BadRest(ast.program[i]) /\ EmomNoSlot(ast.program[j])
    /\ \E k \in 1..Len(issues) : issues[k].code = "E010"
    /\ \E k \in 1..Len(issues) : issues[k].code = "E020"
    /\ \E k \in 1..Len(issues) : issues[k].level # "error"

(***************************************************************************)
(* Properties of _normalize_wod_text                                       *)
(***************************************************************************)
\* C8: for every input text, normalizing the normalized text gives the
\* normalized text.
C8_FmtIdempotent == fmtpc = 2 => twice = once

\* a text whose leading blank lines carry blanks, normalized twice
C8_Witness ==
    /\ fmtpc = 2
    /\ text = <<" ", "\n", " ", "\n", "a">>
    /\ once = <<"\n", "a", "\n">>
    /\ twice = once

\* C9: for every input text (the empty text, a text of blank lines only, a
\* text with leading or trailing blank lines), the normalized text never
\* holds three consecutive newlines, ends with exactly one newline, and has
\* no line with trailing whitespace.
C9_FmtShape ==
    fmtpc >= 1 =>
        /\ \A k \in 1..(Len(once) - 2) :
              ~(once[k] = "\n" /\ once[k + 1] = "\n" /\ once[k + 2] = "\n")
        /\ Len(once) >= 1
        /\ once[Len(once)] = "\n"
        /\ Len(once) >= 2 => once[Len(once) - 1] # "\n"
        /\ \A k \in 2..Len(once) :
              once[k] = "\n" => once[k - 1] \notin (Whitespace \ {"\n"})

\* a text with a leading blank line, a trailing blank after a word and two
\* trailing line ends, normalized
C9_Witness ==
    /\ fmtpc = 1
    /\ text = <<"\n", "a", " ", "\n", "\n">>
    /\ once = <<"\n", "a", "\n">>

\* the W001 warnings of the last lint that name a movement
W001For(mv) ==
    {k \in 1..Len(issues) :
        /\ issues[k].code = "W001"
        /\ issues[k].level = "warning"
        /\ issues[k].msg = "Unknown movement '" \o mv \o "'"}

\* C11: for every line inside a BUYIN, CASHOUT or BLOCK body, the inner line
\* of every slot-line included, lint emits a warning-level W001 if and only if
\* the line's movement is not a known movement: one W001 per such line, and
\* no W001 that names a known movement or no line.
C11_W001Coverage ==
    linted =>
        /\ \A pos \in StmtPositions(ast) :
              LET mv == LineAt(ast, pos).movement IN
              Cardinality(W001For(mv))
                 = IF mv \in KNOWN_MOVEMENTS THEN 0
                   ELSE Cardinality({q \in StmtPositions(ast) : LineAt(ast, q).movement = mv})
        /\ \A k \in 1..Len(issues) :
              issues[k].code = "W001" =>
                  \E pos \in StmtPositions(ast) : k \in W001For(LineAt(ast, pos).movement)

(***************************************************************************)
(* main(): the command line, the exit code and what is printed             *)
(***************************************************************************)
\* the attributes of the Namespace parse_args returns for a command: its own
\* arguments, and --catalog, --track, --gender for the parsers p1..p4
ArgNames(c) ==
    {"cmd", "file"}
    \cup (CASE c = "parse" -> {"out"}
            [] c = "run" -> {"format"}
            [] c = "export" -> {"to", "out"}
            [] c = "fmt" -> {"in_place", "out"}
            [] OTHER -> {})
    \cup (IF c \in {"parse", "lint", "run", "export"}
          THEN {"catalog", "track", "gender"} ELSE {})

\* whether parse_wod_text(t) returns an AST: of the texts over Chars, the
\* blank ones are the empty program (WS is ignored) and no other begins with
\* a keyword of the grammar
Parses(t) == \A i \in 1..Len(t) : t[i] \in Whitespace

\* an exception nobody catches: the traceback on stderr, exit code 1
Uncaught(name) == [exit |-> <<1>>, output |-> [to |-> "stderr", data |-> <<name>>]]

\* main() for the command fmt on a file holding t, with options o
MainFmtResult(t, o) ==
    IF ~Parses(t) THEN Uncaught("parse error")
    ELSE IF "catalog" \notin ArgNames("fmt") THEN Uncaught("AttributeError")
    ELSE IF ~Parses(t)
         THEN [exit |-> <<2>>, output |-> [to |-> "stderr", data |-> <<"Format check failed">>]]
    ELSE [exit |-> <<0>>,
          output |-> [to |-> IF o.out # "" THEN o.out
                             ELSE IF o.in_place THEN "file" ELSE "stdout",
                      data |-> _normalize_wod_text(t)]]

\* the process `wodc2 fmt <file> [-i] [-o out]` from start to exit
MainFmt ==
    /\ cmd = "fmt" /\ exit = <<>>
    /\ exit' = MainFmtResult(text, opts).exit
    /\ output' = MainFmtResult(text, opts).output
    /\ UNCHANGED <<ast0, ast, catalog, track, gender, nres, issues, linted, ev, tl, text,
                   once, twice, fmtpc, source, cmd, opts>>

FmtCmds == {Cmd("fmt", [in_place |-> b, out |-> o]) : b \in BOOLEAN, o \in {"", "out.wod"}}

InitFmtMain == InitWith({Args("", "RX", "male")}, Texts, FmtCmds)

NextFmtMain == MainFmt

SpecFmtMain == InitFmtMain /\ [][NextFmtMain]_vars

\* C12: the fmt subcommand exits with code 2 when the input file fails to
\* parse, and otherwise emits the normalized text (to stdout, in place or to
\* the out-file) and exits with code 0; it has no other exit.
C12_FmtExit ==
    (cmd = "fmt" /\ exit # <<>>) =>
        IF Parses(text)
        THEN /\ exit = <<0>>
             /\ output.data = _normalize_wod_text(text)
             /\ output.to = (IF opts.out # "" THEN opts.out
                             ELSE IF opts.in_place THEN "file" ELSE "stdout")
        ELSE exit = <<2>>

(***************************************************************************)
(* The readers of the AST, called by a user of the module                  *)
(***************************************************************************)
\* lint(ast) and build_timeline(ast), in any order and any number of times,
\* on an AST the resolver has run on
LintAfterResolve == nres >= 1 /\ Lint

TimelineAfterResolve == nres >= 1 /\ BuildTimelineCall

InitReaders == InitWith({Args("", "RX", "male")}, {<<>>}, {Cmd("", NoOpts)})

ParseReaders == ParseSegment(LintSegsIn)

NextReaders == ParseReaders \/ MainResolve \/ LintAfterResolve \/ TimelineAfterResolve

SpecReaders == InitReaders /\ [][NextReaders]_vars

\* C13: lint(ast) and build_timeline(ast), with the render_line calls it
\* makes, leave every part of the AST unchanged, in any order and any number
\* of calls after the resolver has run.
C13_ReadersReadOnly ==
    [][(nres >= 1 /\ nres' = nres) => ast' = ast]_vars

\* both readers have run on a resolved AST with aliased and unknown
\* movements, lint after the timeline
C13_Witness ==
    /\ nres = 1
    /\ linted /\ Len(issues) >= 2
    /\ tl = "returned" /\ Len(ev) >= 3
    /\ ast = ResolvedAst(ast0, LoadCatalog(catalog), track, gender)
    /\ ast # ast0

\* C14: the lint subcommand prints one line per diagnostic and exits with
\* code 1 if at least one diagnostic has level error, and with code 0
\* otherwise: warnings alone never make it exit nonzero.
C14_LintExitCode ==
    (cmd = "lint" /\ exit # <<>>) =>
        /\ output.to = "stdout"
        /\ Len(output.data) = Len(issues)
        /\ exit = (IF \E k \in 1..Len(issues) : issues[k].level = "error"
                   THEN <<1>> ELSE <<0>>)

\* lint has exited with code 0 after printing warnings only
C14_Witness ==
    /\ cmd = "lint" /\ exit = <<0>>
    /\ Len(issues) >= 2
    /\ Len(output.data) = Len(issues)
    /\ \A k \in 1..Len(issues) : issues[k].level = "warning"

(***************************************************************************)
(* The clock of the timeline and the estimates                             *)
(***************************************************************************)
\* round(x) for x >= 0 in thousandths: the nearest integer, a tie going to
\* the even one
PyRound(x) ==
    LET q == x \div 1000
        r == x % 1000 IN
    IF r < 500 THEN q
    ELSE IF r > 500 THEN q + 1
    ELSE IF q % 2 = 0 THEN q ELSE q + 1

\* the index of the first END_BLOCK event after event s
EndAfter(s) ==
    CHOOSE e \in (s + 1)..Len(ev) :
        ev[e].type = "END_BLOCK" /\ \A k \in (s + 1)..(e - 1) : ev[k].type # "END_BLOCK"

EstimatedModes == {"FT", "RFT", "CHIPPER", "TABATA", "INTERVAL"}

\* C15: for every block of mode FT, RFT, CHIPPER, TABATA or INTERVAL,
\* END_BLOCK sits at t_start + round(est_block_seconds), est_block_seconds
\* being the sum of the per-line estimates (times the rounds for RFT) or
\* sets x (work + rest).
C15_EstimatedBlockEnd ==
    tl = "returned" =>
        /\ Cardinality(StartEvents(ev)) = Cardinality(BlockSegs(ast))
        /\ \A n \in 1..Cardinality(BlockSegs(ast)) :
              LET seg == NthBlock(n)
                  s == Nth(StartEvents(ev), n) IN
              seg.head.mode \in EstimatedModes =>
                  /\ \E e \in (s + 1)..Len(ev) : ev[e].type = "END_BLOCK"
                  /\ ev[EndAfter(s)].t = ev[s].t + PyRound(est_block_seconds(seg))

(***************************************************************************)
(* Properties of the catalog defaults                                      *)
(***************************************************************************)
\* movements[mv].<field>[track][gender] of the catalog: <<v>>, or <<>> when a
\* key on the way is missing
Lookup(mv, field) ==
    LET ms == Catalog1.movements
        tk == Lower(track) IN
    IF /\ mv \in DOMAIN ms
       /\ field \in DOMAIN ms[mv]
       /\ tk \in DOMAIN ms[mv][field]
       /\ gender \in DOMAIN ms[mv][field][tk]
    THEN <<ms[mv][field][tk][gender]>> ELSE <<>>

\* the qty the resolver owes a line parsed as l0, with a catalog: the branch
\* of a dual qty, and for a missing qty or a distance of 0 the first of reps,
\* distance, cal the catalog has for the canonical movement
DefaultedQty(l0) ==
    LET q == IF l0.qty.kind \in DualQtyKinds THEN ChosenQty(l0.qty, gender) ELSE l0.qty
        mv == _normalize_mv(l0.movement) IN
    IF q = None \/ (q.kind = "distance" /\ q.value = 0)
    THEN IF Lookup(mv, "reps") # <<>>
         THEN [kind |-> "reps", value |-> Lookup(mv, "reps")[1]]
         ELSE IF Lookup(mv, "distance") # <<>>
         THEN [kind |-> "distance", value |-> Lookup(mv, "distance")[1], unit |-> "m"]
         ELSE IF Lookup(mv, "cal") # <<>>
         THEN [kind |-> "cal", value |-> Lookup(mv, "cal")[1]]
         ELSE q
    ELSE q

\* C16: with a catalog, a line whose qty is missing or a distance with value
\* 0 gets reps from movements[mv].reps[track][gender] if present, else a
\* distance in m from .distance, else cal from .cal; when none is present, or
\* the line has any other qty, the qty is left as it is and the resolver does
\* not fail.
C16_CatalogQty ==
    (nres = 1 /\ catalog # "") =>
        \A pos \in StmtPositions(ast0) :
            LineAt(ast, pos).qty = DefaultedQty(LineAt(ast0, pos))

\* the load the resolver owes a line parsed without a load, with a catalog:
\* the structured form of a catalog string in a known load form (a number and
\* kg, lb, cm, in or m), the catalog's object as it is, nothing otherwise
DefaultedLoad(l0) ==
    LET v == Lookup(_normalize_mv(l0.movement), "load") IN
    IF v = <<>> THEN None
    ELSE IF v[1].json = "str"
         THEN LET m == SingleGroups(v[1].v, "d", CatalogLoadUnits) IN
              IF m # {} THEN mk(Pick(m)[1], Pick(m)[2]) ELSE None
         ELSE v[1].v

\* C17: with a catalog, a line without a load whose movement has a catalog
\* load for the track and gender gets the structured load of a string in a
\* known load form (20kg, 60cm, 100m: weight, height or distance with that
\* value and unit), or the structured object itself; a line that already has
\* a load keeps it (its chosen branch, for a dual load).
C17_CatalogLoad ==
    (nres = 1 /\ catalog # "") =>
        \A pos \in StmtPositions(ast0) :
            LET l0 == LineAt(ast0, pos)
                l1 == LineAt(ast, pos) IN
            IF l0.load = None
            THEN l1.load = DefaultedLoad(l0)
            ELSE l1.load \in {l0.load, resolve_load(l0.load, gender)}

(***************************************************************************)
(* The AST builder on lines with distances                                 *)
(***************************************************************************)
Run200m == Src(Tok("DIST", <<"2", "0", "0", "m">>), "run", NoTok, <<>>)

Run1500 == Src(Tok("DIST", <<"1", ".", "5", "k", "m">>), "run",
               Tok("LOADVAL", <<"1", "0", "0", "m">>), <<>>)

RunDual == Src(Tok("DISTDUAL", <<"4", "0", "0", "/", "3", "0", "0", "m">>), "run",
               Tok("LOADDUAL", <<"1", ".", "5", "/", "1", "k", "m">>), <<"SYNC">>)

Carry == Src(Tok("INT", <<"1", "0">>), "sandbag_carry", Tok("LOADVAL", <<"1", ".", "5", "k", "m">>),
             <<>>)

ParseSegs ==
    [c \in 1..MaxSize |->
        IF c = 1 THEN Rests({Time("only_s", <<30>>)})
        ELSE Buyins("BUYIN", StmtsOver({Run200m, Carry}, {0, 1}), c - 1)
             \cup Blocks({[mode |-> "FT"]},
                         StmtsOver({Run200m, Run1500, RunDual, Carry, Burpees10}, {0, 1}), c - 1)]

\* --- parse_wod_text alone: the transformer appending segment after segment
InitParse == InitWith({Args("", "RX", "male")}, {<<>>}, {Cmd("", NoOpts)})

NextParse == ParseSegment(ParseSegs)

SpecParse == InitParse /\ [][NextParse]_vars

\* NUM m is NUM meters and NUM km is NUM x 1000 meters (in tenths)
Meters(num, unit) == ParseFloat(num) * (IF unit = <<"k", "m">> THEN 1000 ELSE 1)

\* the distance a token NUM m|km, or a load of that form, must be stored as
StoredDistance(chars) ==
    {[kind |-> "distance", value |-> Meters(g[1], g[2]), unit |-> "m"] :
        g \in SingleGroups(chars, "d", DistUnits)}

\* the line of the program text at a position
SourceLineAt(pos) == source[pos[1]].stmts[pos[2]]

\* C18: every distance quantity token NUM m or NUM km, every branch of a dual
\* distance token NUM/NUM m|km, and every distance load is stored in the AST
\* with its value in meters, NUM for m and NUM x 1000 for km, and unit m.
C18_DistanceInMeters ==
    \A pos \in StmtPositions(ast0) :
        LET sl == SourceLineAt(pos)
            ln == LineAt(ast0, pos) IN
        /\ sl.q.type = "DIST" => ln.qty \in StoredDistance(sl.q.value)
        /\ sl.q.type = "DISTDUAL" =>
              \E g \in DualGroups(sl.q.value, "d", DistUnits) :
                  ln.qty = [kind |-> "dual_distance", a |-> Meters(g[1], g[3]),
                            b |-> Meters(g[2], g[3]), unit |-> "m"]
        /\ (sl.l.type = "LOADVAL" /\ SingleGroups(sl.l.value, "d", DistUnits) # {}) =>
              ln.load \in StoredDistance(sl.l.value)
        /\ (sl.l.type = "LOADDUAL" /\ DualGroups(sl.l.value, "d", DistUnits) # {}) =>
              \E g \in DualGroups(sl.l.value, "d", DistUnits) :
                  ln.load = [kind |-> "dual",
                             a |-> [kind |-> "distance", value |-> Meters(g[1], g[3]), unit |-> "m"],
                             b |-> [kind |-> "distance", value |-> Meters(g[2], g[3]), unit |-> "m"]]

(***************************************************************************)
(* Totality and clock accounting of build_timeline                         *)
(***************************************************************************)
\* C19: build_timeline returns an event list, without raising, for every AST
\* the parser produces, whatever slot numbers the EMOM slot-lines carry.
C19_TimelineTotal == tl # "raised"

RECURSIVE SeqSum(_)
SeqSum(s) == IF s = <<>> THEN 0 ELSE s[1] + SeqSum(Tail(s))

\* the cap the ICS export computes when meta.cap is absent
EstimatedCap(a) ==
    SeqSum([i \in 1..Len(a.program) |->
              LET seg == a.program[i] IN
              CASE seg.type = "REST" -> Get(seg, "duration", 0)
                [] seg.type = "BLOCK" -> IntOf(est_block_seconds(seg))
                [] OTHER -> 0])

\* the seconds a segment moves the clock of the timeline by: an EMOM block
\* counts whole minutes, and none when it has no slot-line
HasSlotLine(seg) == \E j \in 1..Len(seg.stmts) : seg.stmts[j].type = "EMOM_LINE"

ClockAdvance(seg) ==
    CASE seg.type = "REST" -> seg.duration
      [] seg.type = "BLOCK" /\ seg.head.mode = "EMOM" ->
            IF HasSlotLine(seg) THEN 60 * (seg.head.duration \div 60) ELSE 0
      [] seg.type = "BLOCK" /\ seg.head.mode = "AMRAP" -> seg.head.duration
      [] seg.type = "BLOCK" -> est_block_seconds(seg) \div 1000
      [] OTHER -> 0

DiagsAt(pos) ==
    LET seg == ast.program[pos[1]]
        from == LintStmts(seg.type, pos[1], seg.stmts, pos[2])
        after == LintStmts(seg.type, pos[1], seg.stmts, pos[2] + 1)
    IN {from[k] : k \in 1..(Len(from) - Len(after))}

\* a path that names the segment, by its type and its index in the program
\* from 0, and the line by its index in the segment from 0
LocatingPath(pos) ==
    ast.program[pos[1]].type \o "[" \o ToString(pos[1] - 1) \o "].LINE["
        \o ToString(pos[2] - 1) \o "]"

\* C21: in the output of lint, two W001 or W002 diagnostics that concern
\* different lines of the program carry different paths, and the path of every
\* such diagnostic identifies the index of the segment its line is in.
C21_PathsLocate ==
    linted =>
        /\ \A p \in StmtPositions(ast) :
              \A d \in DiagsAt(p) :
                  /\ d.code \in {"W001", "W002"}
                  /\ \E k \in 1..Len(issues) : issues[k] = d
                  /\ d.path = LocatingPath(p)
        /\ \A p, q \in StmtPositions(ast) :
              p # q => \A d \in DiagsAt(p), e \in DiagsAt(q) : d.path # e.path

(***************************************************************************)
(* The bracketing of the timeline's events                                 *)
(***************************************************************************)
Openers == {"START_BUYIN", "START_CASHOUT", "START_BLOCK", "REST_START"}

Closers == {"END_BUYIN", "END_CASHOUT", "END_BLOCK", "REST_END"}

\* the event that ends what an opening event starts
CloserOf(typ) ==
    CASE typ = "START_BUYIN" -> "END_BUYIN"
      [] typ = "START_CASHOUT" -> "END_CASHOUT"
      [] typ = "START_BLOCK" -> "END_BLOCK"
      [] typ = "REST_START" -> "REST_END"

\* the event that opens a segment
OpenerOf(seg) ==
    CASE seg.type = "BUYIN" -> "START_BUYIN"
      [] seg.type = "CASHOUT" -> "START_CASHOUT"
      [] seg.type = "BLOCK" -> "START_BLOCK"
      [] seg.type = "REST" -> "REST_START"

OpenerEvents == {k \in 1..Len(ev) : ev[k].type \in Openers}

TimedSegs == {i \in 1..Len(ast.program) :
                 ast.program[i].type \in {"BUYIN", "CASHOUT", "REST", "BLOCK"}}

\* C22: in the event list build_timeline returns, every START_BUYIN,
\* START_CASHOUT, START_BLOCK and REST_START is followed by its matching END
\* or REST_END before any other START or REST_START; PROMPT and NEXT_SLOT
\* events occur only between a START and its END; and the opening events
\* appear in the order of the BUYIN, CASHOUT, REST and BLOCK segments of the
\* program, one pair per segment.
C22_Bracketed ==
    tl = "returned" =>
        /\ \A k \in OpenerEvents :
              \E e \in (k + 1)..Len(ev) :
                  /\ ev[e].type = CloserOf(ev[k].type)
                  /\ \A m \in (k + 1)..(e - 1) : ev[m].type \notin Openers \cup Closers
        /\ Cardinality({k \in 1..Len(ev) : ev[k].type \in Closers}) = Cardinality(OpenerEvents)
        /\ \A k \in 1..Len(ev) :
              ev[k].type \in {"PROMPT", "NEXT_SLOT"} =>
                  \E s \in 1..(k - 1) :
                      /\ ev[s].type \in Openers \ {"REST_START"}
                      /\ \A m \in (s + 1)..(k - 1) : ev[m].type \notin Openers \cup Closers
        /\ \A k \in 1..Len(ev) :
              ev[k].type \in Openers \cup Closers \cup {"PROMPT", "NEXT_SLOT"}
        /\ Cardinality(OpenerEvents) = Cardinality(TimedSegs)
        /\ \A n \in 1..Cardinality(TimedSegs) :
              ev[Nth(OpenerEvents, n)].type = OpenerOf(ast.program[Nth(TimedSegs, n)])

\* a returned timeline of segments of two types, with a PROMPT and a
\* NEXT_SLOT inside their brackets
C22_Witness ==
    /\ tl = "returned"
    /\ Cardinality({ev[k].type : k \in OpenerEvents}) >= 2
    /\ \E k \in 1..Len(ev) : ev[k].type = "PROMPT"
    /\ \E k \in 1..Len(ev) : ev[k].type = "NEXT_SLOT"

====
